---------------------------- MODULE Spec2Model ----------------------------
(***************************************************************************)
(* Timeline playback synchronizer of the video editor front end:           *)
(* getActiveClip / VideoPlayer (src/unnamed/part_000), Timeline            *)
(* (src/unnamed/part_001) and App (src/unnamed/part_002).                  *)
(*                                                                         *)
(* Times are integers counted in units of 1/TimeUnitsPerSecond seconds     *)
(* (centiseconds); pixel coordinates are whole pixels. The arithmetic of   *)
(* the pixel/time conversion is also modelled in binary floating point.    *)
(***************************************************************************)
EXTENDS Integers, Sequences, FiniteSets, TLC

VARIABLES
    timelineState,  \* App: useState<TimelineState | null>            (part_002:26)
    isPlaying,      \* App: useState<boolean>                          (part_002:29)
    error,          \* VideoPlayer: useState<string | null>           (part_000:201)
    currentClipId,  \* VideoPlayer: useState<string | null>           (part_000:202)
    animationFrameRef, \* VideoPlayer: useRef<number | null>, 0 is null (part_000:203)
    mounted,        \* VideoPlayer: videoRef.current is the <video>    (part_000:200)
    video,          \* the <video> element: src, currentTime, paused, ready
    raf,            \* animation-frame callbacks requested and not yet run
    invokes,        \* seek_timeline commands sent and not yet handled
    broadcasts,     \* STATE_UPDATE events emitted and not yet delivered
    backend,        \* the editing engine's timeline
    last,           \* the handler that ran last, its argument, and the calls it made in order
    stage,          \* history: how far a restart after the end of the timeline has got
    failed,         \* history: a media error was recorded; whether the user has acted on it
    sought,         \* history: the target of the user's seek during playback, nothing done since
    emitted,        \* history: the playhead the last tick sent, playback uninterrupted since its start
    rClips,         \* resolver harness: the array handed to getActiveClip
    rTime,          \* resolver harness: the time handed to getActiveClip
    rResult,        \* resolver harness: what the last call returned
    rFirst,         \* resolver harness: what the first call returned
    rFirstTime,     \* resolver harness: the time handed to the first call
    rGiven,         \* resolver harness: the array as it was before the first call
    rCalls,         \* resolver harness: number of calls made
    fTime,          \* conversion harness: the playhead time t, a float
    fMaxTime,       \* conversion harness: timelineState.duration, a float
    fResult,        \* conversion harness: the time computed back from t's pixel
    fCalls          \* conversion harness: number of conversions made

appVars == <<timelineState, isPlaying>>
playerVars == <<error, currentClipId, animationFrameRef, mounted, video, raf>>
backendVars == <<invokes, broadcasts, backend>>
programVars == <<appVars, playerVars, backendVars, last, stage, failed, sought,
                  emitted>>
resolverVars == <<rClips, rTime, rResult, rFirst, rFirstTime, rGiven, rCalls>>

floatVars == <<fTime, fMaxTime, fResult, fCalls>>
harnessVars == <<resolverVars, floatVars>>

vars == <<programVars, harnessVars>>

-----------------------------------------------------------------------------
(* Bounds *)

MaxClips == 3        \* clips in a collection handed to the resolver
MaxStart == 2        \* largest clip start handed to the resolver
MaxDur == 2          \* largest clip duration handed to the resolver
MaxCalls == 2        \* calls of the resolver on one collection
MaxInFlight == 1     \* seek_timeline commands in flight
MaxBroadcasts == 1   \* STATE_UPDATE events not yet delivered
MaxEdits == 1        \* timeline edits the engine makes
SourceLength == 14   \* length of every source media file, in time units
MediaStep == 5       \* media time that passes between two frames
MantissaBits == 5    \* significant bits of a floating-point number
MaxFloat == 64       \* largest time handed to the conversion, in quanta

-----------------------------------------------------------------------------
(* Program constants, in time units of 0.01 s *)

EPSILON == 1            \* 0.01 s past a clip's end
DRIFT_THRESHOLD == 10   \* 0.1 s
END_MARGIN == 10        \* 0.1 s before the end of the timeline
PIXELS_PER_SECOND == 50
TimeUnitsPerSecond == 100 * EPSILON

-----------------------------------------------------------------------------
(* Values *)

\* JavaScript null (Clip | null, TimelineState | null, string | null).
null == [id |-> "null"]

\* interface Clip
Clip(id, start, duration) ==
    [id |-> id, source_file |-> id, start |-> start, duration |-> duration,
     track_id |-> "track"]

\* A <video> element as React creates it.
FreshVideo == [src |-> "", currentTime |-> 0, paused |-> TRUE, ready |-> "empty"]

Max(a, b) == IF a >= b THEN a ELSE b
Min(a, b) == IF a <= b THEN a ELSE b

-----------------------------------------------------------------------------
(* Clip index and active-clip resolver *)

\* Where Array.prototype.sort's stable merge puts clip c among the already
\* ordered prefix s: behind every element that does not compare greater.
\* A sort that is not stable: equal starts end up in reverse insertion order.
RECURSIVE InsertByStart_Unstable(_, _)
InsertByStart_Unstable(s, c) ==
    IF s = <<>> THEN <<c>>
    ELSE IF s[Len(s)].start - c.start < 0 THEN Append(s, c)
    ELSE Append(InsertByStart_Unstable(SubSeq(s, 1, Len(s) - 1), c), s[Len(s)])

RECURSIVE InsertByStart(_, _)
InsertByStart(s, c) ==
    IF s = <<>> THEN <<c>>
    ELSE IF s[Len(s)].start - c.start <= 0 THEN Append(s, c)
    ELSE Append(InsertByStart(SubSeq(s, 1, Len(s) - 1), c), s[Len(s)])

\* [...clips].sort((a, b) => a.start - b.start)
RECURSIVE SortedByStart(_)
SortedByStart(clips) ==
    IF clips = <<>> THEN <<>>
    ELSE InsertByStart(SortedByStart(SubSeq(clips, 1, Len(clips) - 1)),
                       clips[Len(clips)])

\* The interval test with the end included.
RECURSIVE FirstMatch_ClosedEnd(_, _)
FirstMatch_ClosedEnd(sorted, time) ==
    IF sorted = <<>> THEN null
    ELSE IF Head(sorted).start <= time
            /\ time <= Head(sorted).start + Head(sorted).duration
         THEN Head(sorted)
         ELSE FirstMatch_ClosedEnd(Tail(sorted), time)

\* The interval test with the start left out.
RECURSIVE FirstMatch_OpenStart(_, _)
FirstMatch_OpenStart(sorted, time) ==
    IF sorted = <<>> THEN null
    ELSE IF Head(sorted).start < time
            /\ time < Head(sorted).start + Head(sorted).duration
         THEN Head(sorted)
         ELSE FirstMatch_OpenStart(Tail(sorted), time)

\* The loop of getActiveClip over the sorted copy.
RECURSIVE FirstMatch(_, _)
FirstMatch(sorted, time) ==
    IF sorted = <<>> THEN null
    ELSE IF Head(sorted).start <= time
            /\ time < Head(sorted).start + Head(sorted).duration
         THEN Head(sorted)
         ELSE FirstMatch(Tail(sorted), time)

\* The loop run over the collection as given, without the sort.
getActiveClip_NoSort(clips, time) == FirstMatch(clips, time)

getActiveClip(clips, time) == FirstMatch(SortedByStart(clips), time)

\* clips.sort(...) on the array itself instead of on a copy.
ClipsAfterGetActiveClip_InPlace(clips) == SortedByStart(clips)

\* The caller's array after a call of getActiveClip: the sort works on the
\* spread copy, so the array handed in is left as it was.
ClipsAfterGetActiveClip(clips) == clips

-----------------------------------------------------------------------------
(* VideoPlayer: one render of the component and its effects *)

Abs(x) == IF x < 0 THEN -x ELSE x

\* convertFileSrc(path)
convertFileSrc(path) == "asset://localhost/" \o path

\* clips={timelineState?.clips || []}, playheadTime={timelineState?.playhead_time ?? 0}
Props(ts, playing) ==
    [clips |-> IF ts = null THEN <<>> ELSE ts.clips,
     playheadTime |-> IF ts = null THEN 0 ELSE ts.playhead_time,
     isPlaying |-> playing]

\* The component's own state, refs and the element behind videoRef.
Player ==
    [error |-> error, currentClipId |-> currentClipId,
     afRef |-> animationFrameRef, mounted |-> mounted, video |-> video,
     raf |-> raf]

\* activeClip?.id
ActiveId(active) == IF active = null THEN null ELSE [id |-> active.id]

\* The values the dependency arrays of the three effects hold in a render.
Deps(p, c) ==
    LET active == getActiveClip(p.clips, p.playheadTime) IN
    [activeId |-> ActiveId(active),
     currentClipId |-> c.currentClipId,
     isPlaying |-> p.isPlaying,
     playheadTime |-> p.playheadTime,
     activeStart |-> IF active = null THEN -1 ELSE active.start]

\* HTMLMediaElement: video.src = url starts a load, which pauses the element
\* and puts the playback position back to 0.
SetSrc(v, url) ==
    [src |-> url, currentTime |-> 0, paused |-> TRUE, ready |-> "loading"]

\* video.currentTime = t (a position past the end of the media is the end)
SetCurrentTime(v, t) == [v EXCEPT !.currentTime = Min(t, SourceLength)]

\* video.play(); when playback has ended (the position is the end of the
\* media) play() first seeks to the start of the media.
Play(v) ==
    [v EXCEPT !.paused = FALSE,
              !.currentTime = IF v.ready = "ready" /\ v.currentTime = SourceLength
                              THEN 0 ELSE v.currentTime]

\* video.pause()
Pause(v) == [v EXCEPT !.paused = TRUE]

\* cancelAnimationFrame(handle)
CancelAnimationFrame(pending, handle) == {e \in pending : e.handle # handle}

\* The handle requestAnimationFrame returns: one no pending callback has.
\* (The browser hands out ever larger numbers; a handle is only ever compared
\* with the pending ones, and both callers store it in animationFrameRef at
\* once, so the least free number stands for it.)
NewHandle(pending) ==
    CHOOSE h \in 1..(Cardinality(pending) + 1) :
        /\ h \notin {e.handle : e \in pending}
        /\ \A k \in 1..(h - 1) : k \in {e.handle : e \in pending}

\* updatePlayhead as useCallback keeps it for a render: what it closes over.
UpdatePlayheadOf(p) ==
    [activeClip |-> getActiveClip(p.clips, p.playheadTime),
     clips |-> p.clips,
     isPlaying |-> p.isPlaying]

\* requestAnimationFrame handing out handles the ref does not keep.
RequestFrame_RefNotStored(c, callback) ==
    LET h == NewHandle(c.raf) IN
    [c EXCEPT !.raf = c.raf \cup {[handle |-> h, callback |-> callback]}]

\* animationFrameRef.current = requestAnimationFrame(updatePlayhead)
RequestFrame(c, callback) ==
    LET h == NewHandle(c.raf) IN
    [c EXCEPT !.afRef = h,
              !.raf = c.raf \cup {[handle |-> h, callback |-> callback]}]

\* What is rendered: the video element only with clips, an active clip and
\* no error (the three early returns come first).
ShowsVideo(p, c) ==
    /\ p.clips # <<>>
    /\ getActiveClip(p.clips, p.playheadTime) # null
    /\ c.error = null

\* React attaches and detaches videoRef as the <video> enters and leaves the
\* rendered output; an element that enters is a new one.
Commit(p, c) ==
    [c EXCEPT !.mounted = ShowsVideo(p, c),
              !.video = IF ShowsVideo(p, c) /\ c.mounted THEN c.video
                        ELSE FreshVideo]

\* The source effect positioning every newly bound clip at its start.
SourceEffect_FromStart(p, c) ==
    LET activeClip == getActiveClip(p.clips, p.playheadTime) IN
    IF activeClip = null THEN [c EXCEPT !.currentClipId = null]
    ELSE IF ActiveId(activeClip) # c.currentClipId
    THEN LET bound == SetCurrentTime(
                          SetSrc(c.video, convertFileSrc(activeClip.source_file)),
                          0)
         IN [c EXCEPT !.currentClipId = ActiveId(activeClip),
                      !.error = null,
                      !.video = IF ~c.mounted THEN c.video
                                ELSE IF p.isPlaying THEN Play(bound)
                                ELSE bound]
    ELSE c

\* The source effect recording the new clip's id without touching the element.
SourceEffect_IdOnly(p, c) ==
    LET activeClip == getActiveClip(p.clips, p.playheadTime) IN
    IF activeClip = null THEN [c EXCEPT !.currentClipId = null]
    ELSE IF ActiveId(activeClip) # c.currentClipId
    THEN [c EXCEPT !.currentClipId = ActiveId(activeClip), !.error = null]
    ELSE c

\* Effect "update video source when active clip changes"
SourceEffect(p, c) ==
    LET activeClip == getActiveClip(p.clips, p.playheadTime) IN
    IF activeClip = null THEN [c EXCEPT !.currentClipId = null]
    ELSE IF ActiveId(activeClip) # c.currentClipId
    THEN LET offsetInClip == p.playheadTime - activeClip.start
             clampedOffset == Max(0, offsetInClip)
             bound == SetCurrentTime(
                          SetSrc(c.video, convertFileSrc(activeClip.source_file)),
                          clampedOffset)
         IN [c EXCEPT !.currentClipId = ActiveId(activeClip),
                      !.error = null,
                      !.video = IF ~c.mounted THEN c.video
                                ELSE IF p.isPlaying THEN Play(bound)
                                ELSE bound]
    ELSE c

\* Effect "sync video position when playhead changes externally"
SyncEffect(p, c) ==
    LET activeClip == getActiveClip(p.clips, p.playheadTime) IN
    IF activeClip = null \/ ~c.mounted THEN c
    ELSE LET offsetInClip == p.playheadTime - activeClip.start
             currentVideoTime == c.video.currentTime
         IN IF Abs(currentVideoTime - offsetInClip) > DRIFT_THRESHOLD
            THEN [c EXCEPT !.video = SetCurrentTime(c.video, Max(0, offsetInClip))]
            ELSE c

\* A cleanup that cancels nothing.
LoopCleanup_NoCancel(c) == c

\* The cleanup the "start/stop playback loop" effect returns.
LoopCleanup(c) ==
    IF c.afRef # 0
    THEN [c EXCEPT !.raf = CancelAnimationFrame(c.raf, c.afRef)]
    ELSE c

\* The loop effect without the pause of its else branch.
LoopEffect_NoPause(p, c) ==
    IF p.isPlaying /\ c.mounted
    THEN RequestFrame([c EXCEPT !.video = Play(c.video)], UpdatePlayheadOf(p))
    ELSE IF c.mounted
    THEN LoopCleanup(c)
    ELSE c

\* Effect "start/stop playback loop"
LoopEffect(p, c) ==
    IF p.isPlaying /\ c.mounted
    THEN RequestFrame([c EXCEPT !.video = Play(c.video)], UpdatePlayheadOf(p))
    ELSE IF c.mounted
    THEN LoopCleanup([c EXCEPT !.video = Pause(c.video)])
    ELSE c

\* A render whose loop effect depends on isPlaying alone, not on the
\* updatePlayhead callback.
RenderPass_LoopOnPlayingOnly(prev, p, c, callbackChanged) ==
    LET now == Deps(p, c)
        runSource == \/ prev.activeId # now.activeId
                     \/ prev.currentClipId # now.currentClipId
                     \/ prev.isPlaying # now.isPlaying
        runSync == \/ prev.playheadTime # now.playheadTime
                   \/ prev.activeStart # now.activeStart
        runLoop == prev.isPlaying # now.isPlaying
        c0 == Commit(p, c)
        c1 == IF runLoop THEN LoopCleanup(c0) ELSE c0
        c2 == IF runSource THEN SourceEffect(p, c1) ELSE c1
        c3 == IF runSync THEN SyncEffect(p, c2) ELSE c2
    IN IF runLoop THEN LoopEffect(p, c3) ELSE c3

\* One render and commit: the refs are attached, the cleanups of the effects
\* whose dependencies changed run, then those effects in source order.
\* callbackChanged: clips or activeClip is another object than in the render
\* before, so useCallback returns a new updatePlayhead.
RenderPass(prev, p, c, callbackChanged) ==
    LET now == Deps(p, c)
        runSource == \/ prev.activeId # now.activeId
                     \/ prev.currentClipId # now.currentClipId
                     \/ prev.isPlaying # now.isPlaying
        runSync == \/ prev.playheadTime # now.playheadTime
                   \/ prev.activeStart # now.activeStart
        runLoop == prev.isPlaying # now.isPlaying \/ callbackChanged
        c0 == Commit(p, c)
        c1 == IF runLoop THEN LoopCleanup(c0) ELSE c0
        c2 == IF runSource THEN SourceEffect(p, c1) ELSE c1
        c3 == IF runSync THEN SyncEffect(p, c2) ELSE c2
    IN IF runLoop THEN LoopEffect(p, c3) ELSE c3

\* Renders until no effect has set state. `fresh`: the clips array is a new
\* object in every render (the `|| []` literal while no snapshot is held).
RECURSIVE RenderLoop(_, _, _, _, _)
RenderLoop(prev, p, c, callbackChanged, fresh) ==
    LET c2 == RenderPass(prev, p, c, callbackChanged) IN
    IF c2.currentClipId = c.currentClipId /\ c2.error = c.error THEN c2
    ELSE RenderLoop(Deps(p, c), p, c2, fresh, fresh)

\* The component after App's state became (ts, playing) and its own state c:
\* rendered against the render before, which showed the current state.
Rerender(ts, playing, c, callbackChanged) ==
    RenderLoop(Deps(Props(timelineState, isPlaying), Player),
               Props(ts, playing), c, callbackChanged \/ ts = null, ts = null)

SetPlayer(c) ==
    /\ error' = c.error
    /\ currentClipId' = c.currentClipId
    /\ animationFrameRef' = c.afRef
    /\ mounted' = c.mounted
    /\ video' = c.video
    /\ raf' = c.raf

-----------------------------------------------------------------------------
(* App, Timeline and VideoPlayer: the handlers *)

\* clips.reduce((max, c) => Math.max(max, c.start + c.duration), 0)
RECURSIVE TotalDuration(_)
TotalDuration(clips) ==
    IF clips = <<>> THEN 0
    ELSE Max(TotalDuration(SubSeq(clips, 1, Len(clips) - 1)),
             clips[Len(clips)].start + clips[Len(clips)].duration)

\* onPlayheadChange(time) / onSeek(time), both App's seekTo
SeekCall(time) == [op |-> "seekTo", time |-> time]

\* onPlayingChange(playing), App's setIsPlaying
PlayingCall(playing) == [op |-> "setIsPlaying", playing |-> playing]

\* seekTo: invoke("seek_timeline", { time }) for each seek call, in order;
\* no local state is touched.
SeekTimes(calls) ==
    LET seeks == SelectSeq(calls, LAMBDA k : k.op = "seekTo") IN
    [i \in 1..Len(seeks) |-> seeks[i].time]

\* History of a restart after the end of the timeline, kept beside the
\* program: "ended" once a tick has cleared isPlaying at the end of the last
\* clip, "requested" once togglePlay has enabled isPlaying from there, "moved"
\* once a STATE_UPDATE has then put the playhead to 0, "none" again once a
\* tick has sent a playhead from there (or the user or the engine did
\* something else), "reentered" when a tick cleared isPlaying before that.
StageAfter(name, arg, ts, calls) ==
    CASE name = "updatePlayhead" ->
            IF calls = <<PlayingCall(FALSE)>>
            THEN LET cb == (CHOOSE e \in raf : e.handle = arg).callback IN
                 IF stage \in {"requested", "moved"} THEN "reentered"
                 ELSE IF cb.activeClip.start + cb.activeClip.duration
                            = TotalDuration(cb.clips)
                 THEN "ended" ELSE "none"
            ELSE IF SeekTimes(calls) # <<>> /\ stage = "moved" THEN "none"
            ELSE stage
      [] name = "togglePlay" ->
            IF calls = <<>> THEN stage
            ELSE IF stage \in {"ended", "reentered"}
                    /\ calls[Len(calls)] = PlayingCall(TRUE)
            THEN "requested" ELSE "none"
      [] name = "STATE_UPDATE" ->
            IF timelineState = null \/ ts.clips # timelineState.clips THEN "none"
            ELSE IF stage = "requested" /\ ts.playhead_time = 0 THEN "moved"
            ELSE stage
      [] name \in {"handleTimelineClick", "onError"} -> "none"
      [] OTHER -> stage

\* History of a media error, kept beside the program: "error" from onError
\* until the user clicks the timeline or toggles playback, "acted" once the
\* user has done so while the error was still recorded, "no" otherwise.
FailedAfter(name, calls) ==
    LET acted == IF error # null THEN "acted" ELSE "no" IN
    CASE name = "onError" -> "error"
      [] name = "handleTimelineClick" -> acted
      [] name = "togglePlay" -> IF calls = <<>> THEN failed ELSE acted
      [] OTHER -> failed

\* History of a user seek, kept beside the program: the time the user sought
\* by a click on the timeline during playback (the video element shown), until
\* the user does something else, the clips change, the engine rejects a seek,
\* or the media fails.
SoughtAfter(name, ts, calls) ==
    CASE name = "handleTimelineClick" ->
             IF isPlaying /\ mounted THEN [time |-> calls[1].time] ELSE null
      [] name = "togglePlay" -> IF calls = <<>> THEN sought ELSE null
      [] name = "STATE_UPDATE" ->
             IF timelineState = null \/ ts.clips # timelineState.clips
             THEN null ELSE sought
      [] name = "onError" -> null
      [] OTHER -> sought

\* History of uninterrupted playback, kept beside the program: from a
\* togglePlay that starts playback with nothing in flight and without the
\* restart seek, the playhead the last tick sent (0 before the first); given
\* up when the user clicks or toggles, the clips change, the engine rejects a
\* seek, the media fails or a tick ends playback.
EmittedAfter(name, ts, calls) ==
    CASE name = "togglePlay" ->
             IF calls = <<>> THEN emitted
             ELSE IF calls = <<PlayingCall(TRUE)>> /\ invokes = <<>>
                     /\ broadcasts = <<>>
                  THEN [time |-> 0] ELSE null
      [] name = "updatePlayhead" ->
             IF emitted = null \/ calls = <<>> THEN emitted
             ELSE IF SeekTimes(calls) # <<>>
                  THEN [time |-> SeekTimes(calls)[1]] ELSE null
      [] name = "handleTimelineClick" -> null
      [] name = "STATE_UPDATE" ->
             IF timelineState = null \/ ts.clips # timelineState.clips
             THEN null ELSE emitted
      [] name = "onError" -> null
      [] OTHER -> emitted

\* seekTo with an optimistic local update: the snapshot's playhead is set to
\* the requested time before the engine answers.
Handled_Optimistic(name, arg, ts, playing, c, calls, render, callbackChanged) ==
    LET seeks == SeekTimes(calls)
        ts2 == IF seeks # <<>> /\ ts # null
               THEN [ts EXCEPT !.playhead_time = seeks[Len(seeks)]] ELSE ts
    IN /\ timelineState' = ts2
       /\ isPlaying' = playing
       /\ SetPlayer(Rerender(ts2, playing, c, callbackChanged))
       /\ invokes' = invokes \o seeks
       /\ last' = [handler |-> name, arg |-> arg, calls |-> calls]
       /\ stage' = StageAfter(name, arg, ts, calls)
       /\ failed' = FailedAfter(name, calls)
       /\ sought' = SoughtAfter(name, ts, calls)
       /\ emitted' = EmittedAfter(name, ts, calls)

\* A handler has run: App's state is (ts, playing), the component's c, and
\* the handler made `calls`; React renders when `render` (state was set).
Handled(name, arg, ts, playing, c, calls, render, callbackChanged) ==
    /\ timelineState' = ts
    /\ isPlaying' = playing
    /\ SetPlayer(IF render THEN Rerender(ts, playing, c, callbackChanged) ELSE c)
    /\ invokes' = invokes \o SeekTimes(calls)
    /\ last' = [handler |-> name, arg |-> arg, calls |-> calls]
    /\ stage' = StageAfter(name, arg, ts, calls)
    /\ failed' = FailedAfter(name, calls)
    /\ sought' = SoughtAfter(name, ts, calls)
    /\ emitted' = EmittedAfter(name, ts, calls)

\* A listener that merges: an update without clips keeps the clips held.
DeliverStateUpdate_Merge ==
    /\ broadcasts # <<>>
    /\ Handled("STATE_UPDATE", 0,
               IF timelineState # null /\ Head(broadcasts).clips = <<>>
               THEN [Head(broadcasts) EXCEPT !.clips = timelineState.clips]
               ELSE Head(broadcasts),
               isPlaying, Player, <<>>, TRUE, TRUE)
    /\ broadcasts' = Tail(broadcasts)
    /\ UNCHANGED backend

\* listen("STATE_UPDATE", event => setTimelineState(event.payload))
DeliverStateUpdate ==
    /\ broadcasts # <<>>
    /\ Handled("STATE_UPDATE", 0, Head(broadcasts), isPlaying, Player, <<>>,
               TRUE, TRUE)
    /\ broadcasts' = Tail(broadcasts)
    /\ UNCHANGED backend

\* x / PIXELS_PER_SECOND, x in pixels, the result in time units
PixelToSeconds(x) == (x * TimeUnitsPerSecond) \div PIXELS_PER_SECOND

\* timelineState?.duration || 0
MaxTime(ts) == IF ts = null THEN 0 ELSE ts.duration

\* The clamp turned around: Math.min(0, Math.max(time, maxTime)).
ClampedTime_Swapped(ts, x) == Min(0, Max(PixelToSeconds(x), MaxTime(ts)))

\* The clamp without its upper limit: Math.max(0, time).
ClampedTime_NoUpper(ts, x) == Max(0, PixelToSeconds(x))

\* const clampedTime = Math.max(0, Math.min(time, maxTime))
ClampedTime(ts, x) == Max(0, Min(PixelToSeconds(x), MaxTime(ts)))

\* Timeline: handleTimelineClick, x = e.clientX - rect.left + scrollLeft
handleTimelineClick(x) ==
    /\ Len(invokes) < MaxInFlight
    /\ Handled("handleTimelineClick", x, timelineState, isPlaying, Player,
               <<SeekCall(ClampedTime(timelineState, x))>>, FALSE, FALSE)
    /\ UNCHANGED <<broadcasts, backend>>

\* The restart-at-end test with > in place of >=.
TogglePlayCalls_Strict(p) ==
    IF Len(p.clips) = 0 THEN <<>>
    ELSE (IF ~p.isPlaying /\ p.playheadTime > TotalDuration(p.clips) - END_MARGIN
          THEN <<SeekCall(0)>> ELSE <<>>)
         \o <<PlayingCall(~p.isPlaying)>>

\* The calls togglePlay makes with the clips guard left out.
TogglePlayCalls_NoGuard(p) ==
    (IF ~p.isPlaying /\ p.playheadTime >= TotalDuration(p.clips) - END_MARGIN
     THEN <<SeekCall(0)>> ELSE <<>>) \o <<PlayingCall(~p.isPlaying)>>

\* The calls togglePlay makes, in order.
TogglePlayCalls(p) ==
    IF Len(p.clips) = 0 THEN <<>>
    ELSE (IF ~p.isPlaying /\ p.playheadTime >= TotalDuration(p.clips) - END_MARGIN
          THEN <<SeekCall(0)>> ELSE <<>>)
         \o <<PlayingCall(~p.isPlaying)>>

\* What App's isPlaying is after the setIsPlaying calls among `calls`.
PlayingAfter(calls, playing) ==
    LET sets == SelectSeq(calls, LAMBDA k : k.op = "setIsPlaying") IN
    IF sets = <<>> THEN playing ELSE sets[Len(sets)].playing

\* VideoPlayer: togglePlay
togglePlay ==
    LET calls == TogglePlayCalls(Props(timelineState, isPlaying))
        playing == PlayingAfter(calls, isPlaying)
    IN /\ Len(invokes) < MaxInFlight
       /\ Handled("togglePlay", 0, timelineState, playing, Player, calls,
                  playing # isPlaying, FALSE)
       /\ UNCHANGED <<broadcasts, backend>>

\* updatePlayhead sending the end of the last clip before it stops.
UpdatePlayheadCalls_EmitAtEnd(cb, hasVideo, currentTime) ==
    IF ~hasVideo \/ cb.activeClip = null \/ ~cb.isPlaying THEN <<>>
    ELSE IF currentTime >= cb.activeClip.duration
         THEN LET nextClip ==
                      getActiveClip(cb.clips,
                          cb.activeClip.start + cb.activeClip.duration + EPSILON)
              IN IF nextClip # null THEN <<SeekCall(nextClip.start)>>
                 ELSE <<SeekCall(cb.activeClip.start + cb.activeClip.duration),
                        PlayingCall(FALSE)>>
         ELSE <<SeekCall(cb.activeClip.start + currentTime)>>

\* updatePlayhead without the test for the end of the clip.
UpdatePlayheadCalls_NoBoundary(cb, hasVideo, currentTime) ==
    IF ~hasVideo \/ cb.activeClip = null \/ ~cb.isPlaying THEN <<>>
    ELSE <<SeekCall(cb.activeClip.start + currentTime)>>

\* updatePlayhead sending the media position without the clip's start.
UpdatePlayheadCalls_NoStart(cb, hasVideo, currentTime) ==
    IF ~hasVideo \/ cb.activeClip = null \/ ~cb.isPlaying THEN <<>>
    ELSE IF currentTime >= cb.activeClip.duration
         THEN LET nextClip ==
                      getActiveClip(cb.clips,
                          cb.activeClip.start + cb.activeClip.duration + EPSILON)
              IN IF nextClip # null THEN <<SeekCall(nextClip.start)>>
                 ELSE <<PlayingCall(FALSE)>>
         ELSE <<SeekCall(currentTime)>>

\* The calls updatePlayhead makes when the video element shows currentTime.
UpdatePlayheadCalls(cb, hasVideo, currentTime) ==
    IF ~hasVideo \/ cb.activeClip = null \/ ~cb.isPlaying THEN <<>>
    ELSE LET videoTime == currentTime
             newPlayheadTime == cb.activeClip.start + videoTime
         IN IF videoTime >= cb.activeClip.duration
            THEN LET nextClip ==
                         getActiveClip(cb.clips,
                             cb.activeClip.start + cb.activeClip.duration + EPSILON)
                 IN IF nextClip # null THEN <<SeekCall(nextClip.start)>>
                    ELSE <<PlayingCall(FALSE)>>
            ELSE <<SeekCall(newPlayheadTime)>>

\* Whether updatePlayhead reaches its last statement and requests a frame.
UpdatePlayheadContinues(cb, hasVideo, calls) ==
    /\ hasVideo /\ cb.activeClip # null /\ cb.isPlaying
    /\ calls # <<PlayingCall(FALSE)>>

\* An animation frame: the browser runs the requested callback e.
Tick(e) ==
    LET cb == e.callback
        calls == UpdatePlayheadCalls(cb, mounted, video.currentTime)
        c0 == [Player EXCEPT !.raf = raf \ {e}]
        c1 == IF UpdatePlayheadContinues(cb, mounted, calls)
              THEN RequestFrame(c0, cb) ELSE c0
        playing == PlayingAfter(calls, isPlaying)
    IN /\ e \in raf
       /\ Len(invokes) < MaxInFlight
       /\ Handled("updatePlayhead", e.handle, timelineState, playing, c1, calls,
                  playing # isPlaying, FALSE)
       /\ UNCHANGED <<broadcasts, backend>>

\* <video onLoadedData={() => setError(null)}>: the source has loaded.
MediaLoaded ==
    /\ mounted /\ video.ready = "loading"
    /\ Handled("onLoadedData", 0, timelineState, isPlaying,
               [Player EXCEPT !.video.ready = "ready", !.error = null], <<>>,
               error # null, FALSE)
    /\ UNCHANGED <<broadcasts, backend>>

\* <video onError={...}>: setError(msg)
MediaError ==
    /\ mounted /\ video.ready \in {"loading", "ready"}
    /\ Handled("onError", 0, timelineState, isPlaying,
               [Player EXCEPT !.video.ready = "failed",
                              !.error = [id |-> "Playback failed."]], <<>>,
               TRUE, FALSE)
    /\ UNCHANGED <<broadcasts, backend>>

\* The media plays on for one frame; it stops at the end of the source file.
MediaAdvance ==
    /\ mounted /\ ~video.paused /\ video.ready = "ready"
    /\ video.currentTime < SourceLength
    /\ video' = [video EXCEPT
                    !.currentTime = Min(video.currentTime + MediaStep, SourceLength)]
    /\ last' = [handler |-> "timeupdate", arg |-> 0, calls |-> <<>>]
    /\ UNCHANGED <<appVars, error, currentClipId, animationFrameRef, mounted,
                   raf, backendVars, stage, failed, sought, emitted>>

-----------------------------------------------------------------------------
(* The editing engine, seen through seek_timeline and STATE_UPDATE *)

ClipA == Clip("a", 0, 12)
ClipB == Clip("b", 12, 12)
ClipBLate == Clip("b", 14, 12)

\* The timelines the engine may hold.
Timelines == {<<>>, <<ClipA, ClipB>>, <<ClipA, ClipBLate>>}

\* The STATE_UPDATE payload for the engine's timeline b.
Snapshot(b) ==
    [clips |-> b.clips, duration |-> TotalDuration(b.clips),
     playhead_time |-> b.playhead_time, version |-> b.version]

\* The pixel coordinates a pointer event may carry.
ClickXs == {-5, 6, 7, 20}

\* seek_timeline succeeds: the engine moves its playhead and broadcasts.
BackendSeek ==
    /\ invokes # <<>>
    /\ Len(broadcasts) < MaxBroadcasts
    /\ LET b == [backend EXCEPT !.playhead_time =
                     Max(0, Min(Head(invokes), TotalDuration(backend.clips)))]
       IN /\ backend' = b
          /\ broadcasts' = Append(broadcasts, Snapshot(b))
    /\ invokes' = Tail(invokes)
    /\ last' = [handler |-> "seek_timeline", arg |-> Head(invokes), calls |-> <<>>]
    /\ UNCHANGED <<appVars, playerVars, stage, failed, sought, emitted>>

\* seekTo without its try/catch: the rejection of invoke is the rejection of
\* the promise seekTo returned to its caller.
SeekToSettles_NoCatch(rejects) ==
    [op |-> "settle", as |-> IF rejects THEN "rejected" ELSE "fulfilled"]

\* How the promise returned by seekTo settles: try { await invoke(...) }
\* catch (error) { console.error(...) }, so it is fulfilled either way.
SeekToSettles(rejects) == [op |-> "settle", as |-> "fulfilled"]

\* seek_timeline rejects: seekTo's catch logs the failure.
BackendRejectSeek ==
    /\ invokes # <<>>
    /\ invokes' = Tail(invokes)
    /\ last' = [handler |-> "seek_timeline rejected", arg |-> Head(invokes),
                calls |-> <<SeekToSettles(TRUE)>>]
    /\ stage' = IF stage = "requested" THEN "none" ELSE stage
    /\ failed' = IF failed = "acted" THEN "error" ELSE failed
    /\ sought' = null
    /\ emitted' = null
    /\ UNCHANGED <<appVars, playerVars, broadcasts, backend>>

\* The engine edits its timeline (import, AI edit, test clips) and broadcasts.
BackendEdit ==
    /\ backend.version < MaxEdits
    /\ Len(broadcasts) < MaxBroadcasts
    /\ \E clips \in Timelines \ {backend.clips} :
          LET b == [clips |-> clips,
                    playhead_time |-> Min(backend.playhead_time, TotalDuration(clips)),
                    version |-> backend.version + 1]
          IN /\ backend' = b
             /\ broadcasts' = Append(broadcasts, Snapshot(b))
    /\ last' = [handler |-> "edit", arg |-> 0, calls |-> <<>>]
    /\ sought' = null
    /\ emitted' = null
    /\ UNCHANGED <<appVars, playerVars, invokes, stage, failed>>

-----------------------------------------------------------------------------
(* The program *)

\* The play button is part of the gap placeholder and of the video controls.
PlayButtonShown ==
    LET p == Props(timelineState, isPlaying) IN
    /\ p.clips # <<>>
    /\ getActiveClip(p.clips, p.playheadTime) = null \/ error = null

\* The scroll area with the click handler is rendered once a snapshot is held.
TimelineShown == timelineState # null

ClickTimeline == TimelineShown /\ \E x \in ClickXs : handleTimelineClick(x)

ClickPlayButton == PlayButtonShown /\ togglePlay

AnimationFrame == \E e \in raf : Tick(e)

-----------------------------------------------------------------------------
(* The resolver applied to every small clip collection *)

ClipShapes == (0..MaxStart) \X (1..MaxDur)

\* Collections in insertion order; ids are unique, start >= 0, duration > 0.
ClipSeqs ==
    UNION {{[i \in 1..n |-> Clip("c" \o ToString(i), f[i][1], f[i][2])] :
                f \in [1..n -> ClipShapes]} : n \in 0..MaxClips}

ResolverTimes == -1..(MaxStart + MaxDur + 1)

InitApp ==
    /\ timelineState = null
    /\ isPlaying = FALSE
    /\ error = null
    /\ currentClipId = null
    /\ animationFrameRef = 0
    /\ mounted = FALSE
    /\ video = FreshVideo
    /\ raf = {}
    /\ invokes = <<>>
    /\ last = [handler |-> "mount", arg |-> 0, calls |-> <<>>]
    /\ stage = "none"
    /\ failed = "no"
    /\ sought = null
    /\ emitted = null

InitIdleBackend ==
    /\ broadcasts = <<>>
    /\ backend = [clips |-> <<>>, playhead_time |-> 0, version |-> 0]

InitNoConversion ==
    /\ fTime = 0
    /\ fMaxTime = 0
    /\ fResult = 0
    /\ fCalls = 0

InitResolver ==
    /\ InitApp
    /\ InitIdleBackend
    /\ InitNoConversion
    /\ rClips \in ClipSeqs
    /\ rGiven = rClips
    /\ rTime \in ResolverTimes
    /\ rResult = null
    /\ rFirst = null
    /\ rFirstTime = 0
    /\ rCalls = 0

\* const activeClip = getActiveClip(clips, time)
CallGetActiveClip ==
    /\ rCalls < MaxCalls
    /\ rResult' = getActiveClip(rClips, rTime)
    /\ rFirst' = IF rCalls = 0 THEN getActiveClip(rClips, rTime) ELSE rFirst
    /\ rFirstTime' = IF rCalls = 0 THEN rTime ELSE rFirstTime
    /\ rClips' = ClipsAfterGetActiveClip(rClips)
    /\ rCalls' = rCalls + 1
    /\ UNCHANGED <<rTime, rGiven, programVars, floatVars>>

NextResolver == CallGetActiveClip

SpecResolver == InitResolver /\ [][NextResolver]_vars

-----------------------------------------------------------------------------
(* Claims about the resolver (checked under SpecResolver) *)

Contains(c, t) == c.start <= t /\ t < c.start + c.duration

Matching(clips, t) == {i \in DOMAIN clips : Contains(clips[i], t)}

\* C1: once resolve(clips, t) has returned, the result is a clip whose
\* half-open interval [start, start + duration) contains t and whose start is
\* the least among the clips that contain t; it is none exactly when no
\* clip's interval contains t.
C1_ResolveFirstMatch ==
    rCalls >= 1 =>
        LET M == Matching(rGiven, rTime) IN
        IF M = {} THEN rResult = null
        ELSE /\ rResult # null
             /\ \E i \in M : /\ rResult = rGiven[i]
                              /\ \A j \in M : rGiven[i].start <= rGiven[j].start

\* C1 witness: a call returned a clip although a clip that comes earlier in
\* the collection, with a later start, contains t as well.
C1_Witness ==
    /\ rCalls >= 1
    /\ rResult # null
    /\ \E i, j \in Matching(rGiven, rTime) :
           /\ j < i
           /\ rGiven[i].start < rGiven[j].start
           /\ rResult = rGiven[i]

Abutting(a, b) == a.start + a.duration = b.start

\* C2 as stated: for abutting clips A and B no time makes both match, and
\* resolve at t = B.start returns B.
C2_AbuttingReturnsLater ==
    rCalls >= 1 =>
        \A a, b \in DOMAIN rGiven :
            (a # b /\ Abutting(rGiven[a], rGiven[b])) =>
                /\ ~(Contains(rGiven[a], rTime) /\ Contains(rGiven[b], rTime))
                /\ rTime = rGiven[b].start => rResult = rGiven[b]

\* C2 amended: for abutting clips A and B no time makes both match, resolve
\* at t = B.start never returns A, and it returns B when no third clip's
\* interval contains B.start.
C2_AbuttingNeverEarlier ==
    rCalls >= 1 =>
        \A a, b \in DOMAIN rGiven :
            (a # b /\ Abutting(rGiven[a], rGiven[b])) =>
                /\ ~(Contains(rGiven[a], rTime) /\ Contains(rGiven[b], rTime))
                /\ rTime = rGiven[b].start =>
                      /\ rResult # rGiven[a]
                      /\ (\A k \in DOMAIN rGiven \ {a, b} :
                              ~Contains(rGiven[k], rTime)) => rResult = rGiven[b]

\* C2 witness: a call at the shared boundary of two abutting clips returned
\* the later one.
C2_Witness ==
    /\ rCalls >= 1
    /\ \E a, b \in DOMAIN rGiven :
           /\ a # b
           /\ Abutting(rGiven[a], rGiven[b])
           /\ rTime = rGiven[b].start
           /\ rResult = rGiven[b]

\* C3: when several clips contain t the result is the one with the smallest
\* start, and among those with that start the one that comes first in the
\* collection's insertion order.
C3_OverlapEarliestStable ==
    (rCalls >= 1 /\ Matching(rGiven, rTime) # {}) =>
        \E i \in Matching(rGiven, rTime) :
            /\ rResult = rGiven[i]
            /\ \A j \in Matching(rGiven, rTime) \ {i} :
                  \/ rGiven[i].start < rGiven[j].start
                  \/ rGiven[i].start = rGiven[j].start /\ i < j

\* C3 witness: a call returned while two clips with the same start, the
\* smallest among the matching ones, both contain t.
C3_Witness ==
    /\ rCalls >= 1
    /\ \E i, j \in Matching(rGiven, rTime) :
           /\ i < j
           /\ rGiven[i].start = rGiven[j].start
           /\ rResult = rGiven[i]

-----------------------------------------------------------------------------
(* Specifications of the program *)

InitNoCalls ==
    /\ rClips = <<>>
    /\ rGiven = <<>>
    /\ rTime = 0
    /\ rResult = null
    /\ rFirst = null
    /\ rFirstTime = 0
    /\ rCalls = 0
    /\ InitNoConversion

\* The app has mounted; the engine emits its first STATE_UPDATE on app ready.
Init ==
    /\ InitApp
    /\ \E clips \in Timelines :
          /\ backend = [clips |-> clips, playhead_time |-> 0, version |-> 0]
          /\ broadcasts = <<Snapshot(backend)>>
    /\ InitNoCalls

Next ==
    \/ (DeliverStateUpdate /\ UNCHANGED harnessVars)
    \/ (ClickTimeline /\ UNCHANGED harnessVars)
    \/ (ClickPlayButton /\ UNCHANGED harnessVars)
    \/ (AnimationFrame /\ UNCHANGED harnessVars)
    \/ (MediaLoaded /\ UNCHANGED harnessVars)
    \/ (MediaError /\ UNCHANGED harnessVars)
    \/ (MediaAdvance /\ UNCHANGED harnessVars)
    \/ (BackendSeek /\ UNCHANGED harnessVars)
    \/ (BackendRejectSeek /\ UNCHANGED harnessVars)
    \/ (BackendEdit /\ UNCHANGED harnessVars)

Spec == Init /\ [][Next]_vars

\* The program with the two user handlers also called directly, whatever
\* is rendered (the play button is not rendered without clips, the timeline
\* surface not without a snapshot).
NextDirect ==
    \/ Next
    \/ ((\E x \in ClickXs : handleTimelineClick(x)) /\ UNCHANGED harnessVars)
    \/ (togglePlay /\ UNCHANGED harnessVars)

SpecDirect == Init /\ [][NextDirect]_vars

-----------------------------------------------------------------------------
(* Claims about the seek mapper and the handlers *)

HeldClips == Props(timelineState, isPlaying).clips
HeldPlayhead == Props(timelineState, isPlaying).playheadTime
HeldDuration == IF timelineState = null THEN 0 ELSE timelineState.duration

\* max over the clips of start + duration, 0 without clips
EndOfTimeline(clips) ==
    IF clips = <<>> THEN 0
    ELSE CHOOSE m \in {clips[i].start + clips[i].duration : i \in DOMAIN clips} :
             \A i \in DOMAIN clips : clips[i].start + clips[i].duration <= m

\* C5: the click handler sends exactly one seek, to clamp(x / 50, 0,
\* totalDuration): the target is x / 50 s when that lies in [0, totalDuration],
\* 0 for a negative x, totalDuration for an x past the end, hence always in
\* [0, totalDuration] and 0 when no snapshot or a zero duration is held.
\* (x is in pixels, times are in units of 1/TimeUnitsPerSecond s.)
C5_ClickSeeksClamped ==
    last.handler = "handleTimelineClick" =>
        /\ Len(last.calls) = 1
        /\ last.calls[1].op = "seekTo"
        /\ LET x == last.arg
               t == last.calls[1].time
               inRange == /\ x >= 0
                          /\ x * TimeUnitsPerSecond <= HeldDuration * PIXELS_PER_SECOND
           IN /\ 0 <= t /\ t <= HeldDuration
              /\ inRange => t * PIXELS_PER_SECOND = x * TimeUnitsPerSecond
              /\ x < 0 => t = 0
              /\ ~inRange /\ x >= 0 => t = HeldDuration
              /\ (timelineState = null \/ HeldDuration = 0) => t = 0

\* C5 witness: a click past the end of a non-empty timeline sent a seek to
\* the end.
C5_Witness ==
    /\ last.handler = "handleTimelineClick"
    /\ HeldDuration > 0
    /\ last.arg * TimeUnitsPerSecond > HeldDuration * PIXELS_PER_SECOND
    /\ last.calls = <<SeekCall(HeldDuration)>>

\* C7: the held TimelineState changes only in the step that delivers a state
\* broadcast, and then becomes that broadcast; a click, a tick and a toggle
\* leave it as it is and send their seeks to the engine. So the playhead the
\* player and the timeline use is 0 while no handler has run yet (no snapshot
\* is held then) and afterwards the playhead_time of the last broadcast
\* delivered.
C7_OnlyBroadcastsMoveThePlayhead ==
    [][/\ last.handler = "mount" => (timelineState = null /\ HeldPlayhead = 0)
       /\ IF last'.handler = "STATE_UPDATE"
          THEN /\ broadcasts # <<>>
               /\ timelineState' = Head(broadcasts)
               /\ HeldPlayhead' = Head(broadcasts).playhead_time
          ELSE /\ timelineState' = timelineState
               /\ HeldPlayhead' = HeldPlayhead
       /\ last'.handler \in {"handleTimelineClick", "togglePlay", "updatePlayhead"}
            => invokes' = invokes \o SeekTimes(last'.calls)
      ]_vars

\* C7 witness: a tick has sent a seek to a time that is not the playhead held.
C7_Witness ==
    /\ last.handler = "updatePlayhead"
    /\ Len(last.calls) = 1
    /\ last.calls[1].op = "seekTo"
    /\ last.calls[1].time # HeldPlayhead
    /\ invokes # <<>>

\* C8: the step that delivers a broadcast leaves the core holding exactly
\* that payload (clips, duration, playhead_time, version), and the active
\* clip the player goes by afterwards (the bound clip id, and the clip and
\* clips every requested frame callback closes over) is the one resolved
\* from that payload's clips and playhead_time.
C8_SnapshotReplacedWholesale ==
    [][last'.handler = "STATE_UPDATE" =>
          LET payload == Head(broadcasts)
              active == getActiveClip(payload.clips, payload.playhead_time)
          IN /\ timelineState' = payload
             /\ currentClipId' = ActiveId(active)
             /\ \A e \in raf' : /\ e.callback.activeClip = active
                                 /\ e.callback.clips = payload.clips
      ]_vars

\* C8 witness: a broadcast made after an edit has been delivered during
\* playback, with a clip active and a frame callback requested.
C8_Witness ==
    /\ last.handler = "STATE_UPDATE"
    /\ timelineState # null
    /\ timelineState.version >= 1
    /\ currentClipId # null
    /\ raf # {}

\* C9: a toggle while the clip collection is empty changes neither
\* PlaybackIntent nor anything else, and sends no seek.
C9_ToggleWithoutClipsIsNoOp ==
    [][(last'.handler = "togglePlay" /\ HeldClips = <<>>) =>
          /\ isPlaying' = isPlaying
          /\ invokes' = invokes
          /\ last'.calls = <<>>
          /\ UNCHANGED <<timelineState, playerVars, backendVars>>
      ]_vars

\* C9 witness: togglePlay has run with no clips while PlaybackIntent was
\* true, and it still is.
C9_Witness ==
    /\ last.handler = "togglePlay"
    /\ HeldClips = <<>>
    /\ isPlaying

\* C10: a toggle with clips present: from PlaybackIntent false with the
\* playhead at or past totalDuration - 0.1 it first sends a seek to 0 and then
\* sets PlaybackIntent true; from false with the playhead before that it
\* sends no seek and sets PlaybackIntent true; from true it sends no seek and
\* sets PlaybackIntent false.
C10_ToggleRestartsAtEnd ==
    [][(last'.handler = "togglePlay" /\ HeldClips # <<>>) =>
          IF ~isPlaying
          THEN IF HeldPlayhead >= EndOfTimeline(HeldClips) - END_MARGIN
               THEN /\ last'.calls = <<SeekCall(0), PlayingCall(TRUE)>>
                    /\ invokes' = Append(invokes, 0)
                    /\ isPlaying'
               ELSE /\ last'.calls = <<PlayingCall(TRUE)>>
                    /\ invokes' = invokes
                    /\ isPlaying'
          ELSE /\ last'.calls = <<PlayingCall(FALSE)>>
               /\ invokes' = invokes
               /\ ~isPlaying'
      ]_vars

\* C10 witness: a toggle with the playhead exactly at totalDuration - 0.1
\* has sent the seek to 0 and then enabled PlaybackIntent.
C10_Witness ==
    /\ last.handler = "togglePlay"
    /\ HeldClips # <<>>
    /\ HeldPlayhead = EndOfTimeline(HeldClips) - END_MARGIN
    /\ last.calls = <<SeekCall(0), PlayingCall(TRUE)>>
    /\ isPlaying

-----------------------------------------------------------------------------
(* The pixel/time conversion in floating point                              *)
(*                                                                          *)
(* A JavaScript number is a binary floating-point number. Here a number is  *)
(* a non-negative integer count of quanta with at most MantissaBits         *)
(* significant bits (one quantum is the least positive number), and every   *)
(* product and quotient is rounded to the nearest such number, ties to even.*)

RECURSIVE Pow2(_)
Pow2(k) == IF k = 0 THEN 1 ELSE 2 * Pow2(k - 1)

\* a / b rounded to the nearest integer, ties to the even one
RoundHalfEven(a, b) ==
    LET q == a \div b
        r == a % b
    IN IF 2 * r < b THEN q
       ELSE IF 2 * r > b THEN q + 1
       ELSE IF q % 2 = 0 THEN q ELSE q + 1

\* The binary exponent of a / b: the least s >= s0 with a / b < 2^(MantissaBits + s)
RECURSIVE Exponent(_, _, _)
Exponent(a, b, s0) ==
    IF a < b * Pow2(MantissaBits + s0) THEN s0 ELSE Exponent(a, b, s0 + 1)

\* The floating-point number nearest to a / b (a >= 0, b > 0)
FloatOf(a, b) ==
    LET s == Exponent(a, b, 0) IN RoundHalfEven(a, b * Pow2(s)) * Pow2(s)

Floats == {n \in 0..MaxFloat : FloatOf(n, 1) = n}

\* The distance from n to the next larger floating-point number
Ulp(n) == Pow2(Exponent(n, 1, 0))

\* left: `${playheadTime * PIXELS_PER_SECOND}px`
PlayheadLeft(t) == FloatOf(t * PIXELS_PER_SECOND, 1)

\* The click handler dividing by another zoom level than the cursor uses.
FloatTime_OtherZoom(x) == FloatOf(x, 2 * PIXELS_PER_SECOND)

\* const time = x / PIXELS_PER_SECOND
FloatTime(x) == FloatOf(x, PIXELS_PER_SECOND)

\* const clampedTime = Math.max(0, Math.min(time, maxTime))
FloatClampedTime(x, maxTime) == Max(0, Min(FloatTime(x), maxTime))

InitConversion ==
    /\ InitApp
    /\ InitIdleBackend
    /\ rClips = <<>>
    /\ rGiven = <<>>
    /\ rTime = 0
    /\ rResult = null
    /\ rFirst = null
    /\ rFirstTime = 0
    /\ rCalls = 0
    /\ fMaxTime \in Floats
    /\ fTime \in {t \in Floats : t <= fMaxTime}
    /\ fResult = 0
    /\ fCalls = 0

\* The cursor is drawn at t's pixel and that pixel is converted back.
ConvertThereAndBack ==
    /\ fCalls = 0
    /\ fResult' = FloatClampedTime(PlayheadLeft(fTime), fMaxTime)
    /\ fCalls' = 1
    /\ UNCHANGED <<fTime, fMaxTime, programVars, resolverVars>>

NextConversion == ConvertThereAndBack

SpecConversion == InitConversion /\ [][NextConversion]_vars

\* C6 as stated: for every t in [0, totalDuration] the time computed back
\* from t's pixel position is t.
C6_RoundTripExact ==
    fCalls = 1 => fResult = fTime

\* C6 amended: for every t in [0, totalDuration] the time computed back from
\* t's pixel position lies in [0, totalDuration] and differs from t by at most
\* one unit in the last place of t; it is t whenever the product
\* t * PIXELS_PER_SECOND needs no rounding.
C6_RoundTripWithinUlp ==
    fCalls = 1 =>
        /\ 0 <= fResult /\ fResult <= fMaxTime
        /\ Abs(fResult - fTime) <= Ulp(fTime)
        /\ PlayheadLeft(fTime) = fTime * PIXELS_PER_SECOND => fResult = fTime

\* C6 witness: a conversion there and back of a time whose product with
\* PIXELS_PER_SECOND had to be rounded came out one unit in the last place
\* away from the time.
C6_Witness ==
    /\ fCalls = 1
    /\ PlayheadLeft(fTime) # fTime * PIXELS_PER_SECOND
    /\ fResult # fTime
    /\ Abs(fResult - fTime) = Ulp(fTime)

-----------------------------------------------------------------------------
(* Claims about the playback loop *)

\* C11: after a tick has cleared PlaybackIntent at the end of the timeline and
\* the user has toggled to play, no tick clears PlaybackIntent again before
\* the playhead has been moved to 0 and a tick has sent a playhead value from
\* there, whatever the order of the pending tick and the broadcast of the
\* seek to 0.
C11_RestartResumesFromZero == stage # "reentered"

\* The callback the animation frame with handle h runs.
CallbackOf(h) == (CHOOSE e \in raf : e.handle = h).callback

\* C12: a tick that runs with a video element, an active clip, PlaybackIntent
\* true and mediaElapsed < activeClip.duration sends exactly
\* activeClip.start + mediaElapsed as the new playhead value, leaves
\* PlaybackIntent true and requests exactly one further frame, for the same
\* callback.
C12_TickEmitsLocalPlayhead ==
    [][last'.handler = "updatePlayhead" =>
          LET cb == CallbackOf(last'.arg) IN
          (/\ mounted /\ isPlaying /\ cb.isPlaying
           /\ cb.activeClip # null
           /\ video.currentTime < cb.activeClip.duration) =>
              /\ last'.calls = <<SeekCall(cb.activeClip.start + video.currentTime)>>
              /\ invokes' = Append(invokes, cb.activeClip.start + video.currentTime)
              /\ isPlaying'
              /\ LET others == {e \in raf : e.handle # last'.arg} IN
                 /\ others \subseteq raf'
                 /\ Cardinality(raf' \ others) = 1
                 /\ \A e \in raf' \ others :
                        e.callback = cb /\ e.handle = animationFrameRef'
      ]_vars

\* C12 witness: a tick in the second clip, with the media 0.05 s in, has sent
\* the clip's start plus 0.05 s and a frame is requested.
C12_Witness ==
    /\ last.handler = "updatePlayhead"
    /\ mounted /\ isPlaying
    /\ currentClipId = [id |-> "b"]
    /\ video.currentTime = MediaStep
    /\ last.calls = <<SeekCall(ClipB.start + MediaStep)>>
    /\ raf # {}

\* The clips of the timelines.
TimelineClips == UNION {{clips[i] : i \in DOMAIN clips} : clips \in Timelines}

\* getActiveClip(clips, activeClip.start + activeClip.duration + 0.01)
NextClipAfter(clips, clip) ==
    getActiveClip(clips, clip.start + clip.duration + EPSILON)

\* Playback of the active clip has reached the clip's end, n is the clip
\* the resolver finds just after it, the requested frame holds the callback
\* of the clip that ended, and nothing but the tick's seek to n.start and the
\* engine's answer to it is on its way.
AdvancePending(n) ==
    /\ isPlaying /\ mounted /\ error = null
    /\ timelineState # null
    /\ backend.clips = HeldClips
    /\ LET cur == getActiveClip(HeldClips, HeldPlayhead) IN
       /\ cur # null /\ cur.id # n.id
       /\ currentClipId = [id |-> cur.id]
       /\ video.currentTime >= cur.duration
       /\ NextClipAfter(HeldClips, cur) = n
       /\ raf # {}
       /\ \A e \in raf : e.callback = [activeClip |-> cur, clips |-> HeldClips,
                                        isPlaying |-> TRUE]
    /\ \A i \in DOMAIN invokes : invokes[i] = n.start
    /\ \A i \in DOMAIN broadcasts :
          /\ broadcasts[i].clips = HeldClips
          /\ broadcasts[i].playhead_time = n.start

\* Playback has gone on to n: its source is bound at offset 0, the element
\* plays, isPlaying holds and a frame with n as active clip is requested.
PlayingFromStartOf(n) ==
    /\ isPlaying /\ mounted
    /\ currentClipId = [id |-> n.id]
    /\ video.src = convertFileSrc(n.source_file)
    /\ video.currentTime = 0
    /\ ~video.paused
    /\ raf # {}
    /\ \A e \in raf : e.callback.activeClip = n /\ e.callback.isPlaying

\* The user, the engine's editing or a media error came in between.
Interfered ==
    last.handler \in {"togglePlay", "handleTimelineClick", "edit", "onError"}

C14_EndStopsTicking ==
    [][/\ last'.handler = "updatePlayhead" =>
             LET cb == CallbackOf(last'.arg) IN
             (/\ mounted /\ cb.isPlaying
              /\ cb.activeClip # null
              /\ video.currentTime >= cb.activeClip.duration
              /\ NextClipAfter(cb.clips, cb.activeClip) = null) =>
                 /\ last'.calls = <<PlayingCall(FALSE)>>
                 /\ invokes' = invokes
                 /\ ~isPlaying'
                 /\ raf' = {}
       /\ ~isPlaying => last'.handler # "updatePlayhead"
      ]_vars

\* C14 witness: a tick at the end of the last clip has cleared isPlaying and
\* no frame is requested.
C14_Witness ==
    /\ last.handler = "updatePlayhead"
    /\ last.calls = <<PlayingCall(FALSE)>>
    /\ ~isPlaying
    /\ raf = {}
    /\ currentClipId = [id |-> "b"]
    /\ video.currentTime >= ClipB.duration

\* C15: whenever a tick clears isPlaying, no clip of the collection starts at
\* or after the end of the clip that just finished.
C15_EndedOnlyAfterLastClip ==
    [][(last'.handler = "updatePlayhead" /\ isPlaying /\ ~isPlaying') =>
          LET cb == CallbackOf(last'.arg) IN
          \A i \in DOMAIN HeldClips :
              HeldClips[i].start < cb.activeClip.start + cb.activeClip.duration
      ]_vars

\* C16: a tick sends a playhead value or requests another frame only if
\* isPlaying is true when it runs (in App and in the callback's closure), and
\* while isPlaying is false no frame is requested, so no tick sends a seek
\* until isPlaying is true again.
C16_TickOnlyWhilePlaying ==
    [][/\ last'.handler = "updatePlayhead" =>
             LET cb == CallbackOf(last'.arg) IN
             (\/ SeekTimes(last'.calls) # <<>>
              \/ UpdatePlayheadContinues(cb, mounted, last'.calls)) =>
                 isPlaying /\ cb.isPlaying
       /\ ~isPlaying' => raf' = {}
      ]_vars

\* C16 witness: the user has paused in the middle of a clip; the frame that
\* was requested is gone.
C16_Witness ==
    /\ last.handler = "togglePlay"
    /\ last.calls = <<PlayingCall(FALSE)>>
    /\ ~isPlaying
    /\ mounted /\ video.paused
    /\ video.currentTime = MediaStep
    /\ raf = {}

\* C17: at most one frame is requested at any time, and it is the one whose
\* handle animationFrameRef holds.
C17_OneFrameRequested ==
    /\ Cardinality(raf) <= 1
    /\ \A e \in raf : e.handle = animationFrameRef

\* C17 witness: the loop effect has run again on a STATE_UPDATE during
\* playback (cancelling the frame of the render before) after a tick had
\* already replaced the frame once; one frame is requested.
C17_Witness ==
    /\ last.handler = "STATE_UPDATE"
    /\ isPlaying /\ mounted
    /\ HeldPlayhead = MediaStep
    /\ Cardinality(raf) = 1

\* The component has been torn down.
Torn == last.handler = "unmount"

\* The app is closed: React unmounts the component, which runs the loop
\* effect's cleanup and detaches videoRef; App's listener is removed.
Unmount ==
    /\ SetPlayer([LoopCleanup(Player) EXCEPT !.mounted = FALSE,
                                             !.video = FreshVideo])
    /\ last' = [handler |-> "unmount", arg |-> 0, calls |-> <<>>]
    /\ UNCHANGED <<appVars, backendVars, stage, failed, sought, emitted>>

\* The program until it is torn down; afterwards nothing of it is left to
\* run but a frame that would still be requested.
NextTeardown ==
    \/ (~Torn /\ Next)
    \/ (~Torn /\ Unmount /\ UNCHANGED harnessVars)

SpecTeardown == Init /\ [][NextTeardown]_vars

SamePlayingClip(ts) ==
    /\ mounted /\ error = null
    /\ timelineState # null
    /\ ts.playhead_time # HeldPlayhead
    /\ LET cur == getActiveClip(HeldClips, HeldPlayhead)
           new == getActiveClip(ts.clips, ts.playhead_time)
       IN /\ cur # null /\ new # null
          /\ new.id = cur.id
          /\ currentClipId = [id |-> cur.id]

\* C19: when a STATE_UPDATE delivers a new playhead_time and the active clip
\* stays the same, the media position becomes max(0, playhead_time -
\* activeClip.start) if it differed from playhead_time - activeClip.start by
\* more than 0.1 s, and stays what it was if the difference was 0.1 s or less.
C19_DriftCorrection ==
    [][(last'.handler = "STATE_UPDATE" /\ SamePlayingClip(timelineState')) =>
          LET new == getActiveClip(timelineState'.clips, timelineState'.playhead_time)
              offsetInClip == timelineState'.playhead_time - new.start
          IN IF Abs(video.currentTime - offsetInClip) > DRIFT_THRESHOLD
             THEN video'.currentTime = Min(Max(0, offsetInClip), SourceLength)
             ELSE video'.currentTime = video.currentTime
      ]_vars

\* C20: in every state in which a clip is active and the video element is
\* shown, the source of the element is the active clip's source reference,
\* from whatever state the active clip was changed.
C20_SourceFollowsActiveClip ==
    LET activeClip == getActiveClip(HeldClips, HeldPlayhead) IN
    (activeClip # null /\ mounted) =>
        video.src = convertFileSrc(activeClip.source_file)


-----------------------------------------------------------------------------
(* Claims about media errors, rebinding and seeks *)

\* C21: from the moment a media error is recorded until the user clicks the
\* timeline or toggles playback, no tick sends a playhead value and no
\* frame is requested.
C21_ErrorStopsTicking ==
    [][(failed = "error" /\ failed' = "error") =>
          /\ last'.handler = "updatePlayhead" => last'.calls = <<>>
          /\ raf' \subseteq raf
      ]_vars

\* C22: once the user has clicked the timeline or toggled playback while a
\* media error was recorded and the seek has been answered, a STATE_UPDATE
\* that leaves isPlaying true with a clip active leaves the error cleared,
\* the active clip's source bound and a frame requested.
C22_UserActionRecovers ==
    [][(/\ failed = "acted" /\ invokes = <<>>
        /\ last'.handler = "STATE_UPDATE"
        /\ isPlaying'
        /\ getActiveClip(timelineState'.clips, timelineState'.playhead_time) # null) =>
          LET activeClip ==
                  getActiveClip(timelineState'.clips, timelineState'.playhead_time)
          IN /\ error' = null
             /\ mounted'
             /\ video'.src = convertFileSrc(activeClip.source_file)
             /\ raf' # {}
      ]_vars

\* clamp(x, lo, hi)
Clamp(x, lo, hi) == Max(lo, Min(x, hi))

\* The step has bound the source of another clip to the video element.
Rebound ==
    /\ currentClipId' # currentClipId
    /\ currentClipId' # null
    /\ mounted'
    /\ video'.src # ""
    /\ video'.ready = "loading"

\* C23: after every step that binds another clip's source, the media position
\* is clamp(playhead_time - newClip.start, 0, newClip.duration), which is
\* playhead_time - newClip.start itself: never negative, never more than
\* newClip.duration.
C23_RebindOffsetClamped ==
    [][Rebound =>
          LET newClip == getActiveClip(timelineState'.clips,
                                       timelineState'.playhead_time)
              offsetInClip == timelineState'.playhead_time - newClip.start
          IN /\ currentClipId' = [id |-> newClip.id]
             /\ video'.currentTime = Clamp(offsetInClip, 0, newClip.duration)
             /\ video'.currentTime = offsetInClip
             /\ 0 <= video'.currentTime /\ video'.currentTime <= newClip.duration
      ]_vars

\* C23 witness: the second clip has been bound with the playhead 0.02 s
\* after its start; the media is positioned at 0.02 s.
C23_Witness ==
    /\ last.handler = "STATE_UPDATE"
    /\ currentClipId = [id |-> "b"]
    /\ HeldPlayhead = ClipB.start + 2
    /\ getActiveClip(HeldClips, HeldPlayhead) = ClipB
    /\ video.src = convertFileSrc(ClipB.source_file)
    /\ video.ready = "loading"
    /\ video.currentTime = 2

\* C24: after every step that binds another clip's source and after every
\* toggle, with the video element shown, the element plays if and only if
\* isPlaying is true: a rebind with isPlaying true starts playback, a rebind
\* with isPlaying false leaves the media paused at the offset, and a toggle to
\* false pauses it.
C24_MediaPlaysIffIntent ==
    [][((Rebound \/ (last'.handler = "togglePlay" /\ last'.calls # <<>>))
            /\ mounted') =>
          video'.paused = ~isPlaying'
      ]_vars

\* C24 witness: the second clip has been bound during playback and plays.
C24_Witness ==
    /\ last.handler = "STATE_UPDATE"
    /\ isPlaying /\ mounted
    /\ currentClipId = [id |-> "b"]
    /\ video.src = convertFileSrc(ClipB.source_file)
    /\ video.ready = "loading"
    /\ ~video.paused

\* No seek_timeline command and no STATE_UPDATE is on its way.
Quiescent == invokes = <<>> /\ broadcasts = <<>>

\* C25: if the user has sought to T during playback and nothing but ticks
\* and the engine's answers followed, then once no seek and no STATE_UPDATE
\* is on its way the playhead held is T or later, and so is the timeline
\* position of the media, up to the 0.1 s the drift rule tolerates: playback
\* continues from T, not from where the media was before the seek.
C25_UserSeekNotOverwritten ==
    (sought # null /\ Quiescent /\ isPlaying) =>
        /\ HeldPlayhead >= sought.time - DRIFT_THRESHOLD
        /\ LET activeClip == getActiveClip(HeldClips, HeldPlayhead) IN
           (activeClip # null /\ mounted) =>
               activeClip.start + video.currentTime
                   >= sought.time - DRIFT_THRESHOLD


C27_IntentOnlyByToggleOrEnd ==
    [][/\ last'.handler \in {"STATE_UPDATE", "handleTimelineClick"} =>
              isPlaying' = isPlaying
       /\ isPlaying' # isPlaying =>
              \/ last'.handler = "togglePlay"
              \/ /\ last'.handler = "updatePlayhead"
                 /\ LET cb == CallbackOf(last'.arg) IN
                    cb.activeClip.start + cb.activeClip.duration
                        = TotalDuration(HeldClips)
      ]_vars

-----------------------------------------------------------------------------
(* The resolver called again with a later time *)

\* const activeClip = getActiveClip(clips, playheadTime) in a later render,
\* with the same clips and a playhead that has moved on to t.
CallGetActiveClipLater(t) ==
    /\ rCalls >= 1
    /\ rCalls < MaxCalls
    /\ t > rTime
    /\ rTime' = t
    /\ rResult' = getActiveClip(rClips, t)
    /\ rClips' = ClipsAfterGetActiveClip(rClips)
    /\ rCalls' = rCalls + 1
    /\ UNCHANGED <<rFirst, rFirstTime, rGiven, programVars, floatVars>>

NextContinuity ==
    \/ CallGetActiveClip
    \/ \E t \in ResolverTimes : CallGetActiveClipLater(t)

SpecContinuity == InitResolver /\ [][NextContinuity]_vars

Overlaps(a, b) ==
    a.start < b.start + b.duration /\ b.start < a.start + a.duration

\* C28: for a clip C that no other clip of the collection overlaps and two
\* times t1 < t2 inside [C.start, C.start + C.duration), resolve(clips, t1)
\* and resolve(clips, t2) return the same clip, namely C.
C28_SameClipInsideInterval ==
    (rCalls >= 2 /\ rFirstTime < rTime) =>
        \A i \in DOMAIN rGiven :
            (/\ Contains(rGiven[i], rFirstTime)
             /\ Contains(rGiven[i], rTime)
             /\ \A j \in DOMAIN rGiven \ {i} : ~Overlaps(rGiven[i], rGiven[j])) =>
                /\ rResult = rFirst
                /\ rResult = rGiven[i]

\* C28 witness: the first call was made at the start of a clip that abuts
\* the clip before it, a later call at a later time inside the same clip, and
\* both returned that clip.
C28_Witness ==
    /\ rCalls >= 2
    /\ rFirstTime < rTime
    /\ \E i, j \in DOMAIN rGiven :
           /\ i # j
           /\ Abutting(rGiven[j], rGiven[i])
           /\ rFirstTime = rGiven[i].start
           /\ Contains(rGiven[i], rTime)
           /\ \A k \in DOMAIN rGiven \ {i} : ~Overlaps(rGiven[i], rGiven[k])
           /\ rFirst = rGiven[i]
           /\ rResult = rGiven[i]

\* While the playhead moves forward inside one clip of an unchanged
\* collection that no other clip overlaps, the render resolves the same
\* active clip and the source effect does not bind the element again.
NoRebindInsideClip ==
    [][(/\ timelineState # null
        /\ HeldClips' = HeldClips
        /\ HeldPlayhead < HeldPlayhead'
        /\ \E i \in DOMAIN HeldClips :
               /\ Contains(HeldClips[i], HeldPlayhead)
               /\ Contains(HeldClips[i], HeldPlayhead')
               /\ \A j \in DOMAIN HeldClips \ {i} :
                      ~Overlaps(HeldClips[i], HeldClips[j])) =>
          /\ currentClipId' = currentClipId
          /\ currentClipId' = ActiveId(getActiveClip(HeldClips', HeldPlayhead'))
          /\ ~Rebound
          /\ mounted' = mounted
          /\ video'.src = video.src
          /\ video'.ready = video.ready
          /\ \A e \in raf' : e.callback.activeClip = getActiveClip(HeldClips, HeldPlayhead)
      ]_vars

\* C29: when seek_timeline rejects, the rejection stays inside seekTo: the
\* promise seekTo returned is fulfilled, the held TimelineState and isPlaying
\* are as before, and nothing the synchronizer works from is lost: the
\* player, its requested frames and the pending STATE_UPDATEs are as before
\* and the command is no longer in flight.
C29_SeekFailureContained ==
    [][(last'.handler = "seek_timeline rejected" /\ invokes' # invokes) =>
          /\ last'.calls = <<[op |-> "settle", as |-> "fulfilled"]>>
          /\ timelineState' = timelineState
          /\ isPlaying' = isPlaying
          /\ playerVars' = playerVars
          /\ broadcasts' = broadcasts
          /\ invokes' = Tail(invokes)
      ]_vars

\* C29 witness: a seek sent by a tick was rejected during playback; the
\* element plays on and the next frame is requested.
C29_Witness ==
    /\ last.handler = "seek_timeline rejected"
    /\ last.arg > 0
    /\ isPlaying
    /\ mounted
    /\ ~video.paused
    /\ raf # {}
    /\ invokes = <<>>

\* C30: isPlaying is never true while the held clip collection is empty (no
\* snapshot yet, or a snapshot without clips), also after a STATE_UPDATE
\* that removes every clip during playback.
C30_NoIntentWithoutClips ==
    HeldClips = <<>> => ~isPlaying

-----------------------------------------------------------------------------
(* Claims about termination and the order of the emitted playheads *)

\* Nothing but the user or an edit of the timeline can take a step: no
\* frame is requested, no command and no STATE_UPDATE is on its way, and no
\* element is shown whose media could load, advance or fail.
AtRest == raf = {} /\ invokes = <<>> /\ broadcasts = <<>> /\ ~mounted

\* C31: playback terminates: with isPlaying true on a non-empty timeline of
\* non-overlapping clips and no media error, the synchronizer is on its way
\* to the end; it never sits with isPlaying true, no tick scheduled and
\* nothing else pending, where without the user it would stay for ever.
C31_PlaybackTerminates ==
    (/\ isPlaying
     /\ HeldClips # <<>>
     /\ \A i, j \in DOMAIN HeldClips :
            i # j => ~Overlaps(HeldClips[i], HeldClips[j])
     /\ failed = "no") => ~AtRest

\* C32: during uninterrupted playback (no click, no toggle, no change of the
\* clips since playback started) the playhead a tick sends is not smaller
\* than the one the tick before it sent, and at the end of a clip it is the
\* start of the next clip, which is not earlier than the end of the clip
\* that has finished.
C32_EmittedPlayheadMonotonic ==
    [][(/\ last'.handler = "updatePlayhead"
        /\ invokes' # invokes
        /\ emitted # null) =>
          LET v == last'.calls[1].time
              cb == CallbackOf(last'.arg)
          IN /\ v >= emitted.time
             /\ video.currentTime >= cb.activeClip.duration =>
                    /\ \E i \in DOMAIN HeldClips : HeldClips[i].start = v
                    /\ v >= cb.activeClip.start + cb.activeClip.duration
      ]_vars
=============================================================================
